---- MODULE Spec2Model ----
(***************************************************************************)
(* A model of flaskconmysql/app.py: a Flask application with three routes  *)
(* over two tables, user and post.                                         *)
(*                                                                         *)
(*   GET  /          index()     lists the posts joined with their users   *)
(*   GET  /add-post  add_post()  renders the form                          *)
(*   POST /add-post  add_post()  inserts a post owned by a hardcoded id    *)
(*   GET  /add-user  add_user()  inserts the user "rishabh" when absent    *)
(*                                                                         *)
(* The tables live in a database that outlives the process, so the         *)
(* application may start on a user table that already holds rows.          *)
(* models.py is not part of the sources at hand: the constraints of the    *)
(* two tables (primary keys, unique username, foreign key post.user_id ->  *)
(* user.id) are taken from the design document.                            *)
(* uuid.uuid4() is modelled as a fresh value: one that is no key of the    *)
(* table the row goes to and is not the literal of add_post.  The code     *)
(* only ever compares identifiers for equality, so the model draws the     *)
(* first unused value instead of any unused value.  date.today() is a      *)
(* value no operation reads back.  The database being unreachable is not   *)
(* modelled.                                                               *)
(***************************************************************************)
EXTENDS Integers, Sequences, FiniteSets, TLC

\* ---------------------------------------------------------------- bounds
NumWorkers == 2      \* requests that may be in flight at the same time
MaxSubmits == 2      \* POST /add-post requests with both fields present
MaxInitUsers == 2    \* rows of the user table when the application starts

Days == {"2024-06-01"}
Titles == {"Hello", "Again"}
Contents == {"World"}
OtherUsernames == {"alice"}

\* ------------------------------------------------------------- constants
\* add_post: user_id = 'aec92dd8-79dd-4b22-9deb-a2af00d568c8'
user_id == <<"aec92dd8-79dd-4b22-9deb-a2af00d568c8", 0>>

\* the identifiers the rows of the initial user table can carry
InitialUserIds == {user_id} \cup {<<"uuid4", i>> : i \in 1..MaxInitUsers}

\* add_user: the username looked up and inserted, and the email inserted
username == "rishabh"
email == "rishabh@example.com"

EmailOf(name) == IF name = username THEN email ELSE "alice@example.com"

\* ----------------------------------------------------- the two tables
\* a post table declared without its foreign key
PostForeignKeyOk_absent(us, p) == TRUE

\* Constraints of the schema (models.py).
UserPrimaryKeyOk(us, u) == \A x \in us : x.id # u.id
UsernameUniqueOk(us, u) == \A x \in us : x.username # u.username
PostPrimaryKeyOk(ps, p) == \A x \in ps : x.id # p.id
PostForeignKeyOk(us, p) == \E u \in us : u.id = p.user_id

\* The user tables the application can find when it starts.
UserRows ==
    {[id |-> i, username |-> n, email |-> EmailOf(n)] :
        i \in InitialUserIds, n \in {username} \cup OtherUsernames}
InitialUserTables ==
    {us \in SUBSET UserRows :
        /\ Cardinality(us) <= MaxInitUsers
        /\ \A a, b \in us : (a.id = b.id \/ a.username = b.username) => a = b}

\* str(uuid.uuid4()) for a row of a table whose keys in use are `used`
uuid4(used) ==
    <<"uuid4", CHOOSE i \in 1..(Cardinality(used) + 1) :
                  /\ <<"uuid4", i>> \notin used
                  /\ \A j \in 1..(i - 1) : <<"uuid4", j>> \in used>>

\* ------------------------------------------------------------- requests
\* request.form of a POST: each of the fields title, content may be absent
Forms ==
    {t \cup c :
        t \in {{}} \cup {{<<"title", v>>} : v \in Titles},
        c \in {{}} \cup {{<<"content", v>>} : v \in Contents}}
NoForm == {}
CompleteForms == {f \in Forms : Cardinality(f) = 2}

\* the bug of reading a field with request.form.get(key, ''): no KeyError
request_form_get(form, key) ==
    IF \E kv \in form : kv[1] = key
    THEN [ok |-> TRUE, val |-> (CHOOSE kv \in form : kv[1] = key)[2]]
    ELSE [ok |-> TRUE, val |-> ""]

\* request.form[key]: the value, or a KeyError (400 Bad Request)
request_form(form, key) ==
    IF \E kv \in form : kv[1] = key
    THEN [ok |-> TRUE, val |-> (CHOOSE kv \in form : kv[1] = key)[2]]
    ELSE [ok |-> FALSE, val |-> ""]

\* the bug of passing the two form fields to Post(...) the wrong way round
new_post_swapped(id, title, content, created_at) ==
    [id |-> id, user_id |-> user_id, title |-> content, content |-> title,
     created_at |-> created_at]

\* Post(id=..., user_id=user_id, title=title, content=content, created_at=...)
new_post(id, title, content, created_at) ==
    [id |-> id, user_id |-> user_id, title |-> title, content |-> content,
     created_at |-> created_at]

\* the bug of db.session.merge() on a title key: a post of the same title is
\* replaced instead of kept
CommitPost_merge(us, ps, p) ==
    IF (\A x \in ps : x.id # p.id) /\ (\E u \in us : u.id = p.user_id)
    THEN [ok |-> TRUE, posts |-> {x \in ps : x.title # p.title} \cup {p}]
    ELSE [ok |-> FALSE, posts |-> ps]

\* db.session.add(new_post); db.session.commit()
CommitPost(us, ps, p) ==
    IF PostPrimaryKeyOk(ps, p) /\ PostForeignKeyOk(us, p)
    THEN [ok |-> TRUE, posts |-> ps \cup {p}]
    ELSE [ok |-> FALSE, posts |-> ps]

\* the bug of swallowing the commit's exception: the redirect in every case
AddPostResponse_swallowed(ok) == "redirect /"

\* add_post's response after the commit: the redirect, or the unhandled error
AddPostResponse(ok) == IF ok THEN "redirect /" ELSE "StorageError"

\* the bug of looking up another spelling than the one inserted
filter_by_username_typo(us) == {u \in us : u.username = "Rishabh"}

\* User.query.filter_by(username='rishabh').first()
filter_by_username(us) == {u \in us : u.username = "rishabh"}

\* User(id=..., username='rishabh', email='rishabh@example.com')
new_user(id) == [id |-> id, username |-> username, email |-> email]

\* db.session.add(new_user); db.session.commit()
CommitUser(us, u) ==
    IF UserPrimaryKeyOk(us, u) /\ UsernameUniqueOk(us, u)
    THEN [ok |-> TRUE, users |-> us \cup {u}]
    ELSE [ok |-> FALSE, users |-> us]

\* the bug of swallowing the commit's exception: the confirmation in every case
AddUserResponse_swallowed(ok, u) == "User " \o u.username \o " added."

\* add_user's response after the commit: f'User {new_user.username} added.'
AddUserResponse(ok, u) ==
    IF ok THEN "User " \o u.username \o " added." ELSE "StorageError"

\* the bug of a join without its ON condition: every post with every user
JoinRows_cross(us, ps) == [post : ps, author : us]

\* Post.query.join(User): the posts paired with the user they reference
JoinRows(us, ps) ==
    {r \in [post : ps, author : us] : r.post.user_id = r.author.id}

RECURSIVE Orderings(_)
\* .all(): the rows as a list, in an order the query does not fix
Orderings(S) ==
    IF S = {} THEN {<<>>}
    ELSE UNION {{<<x>> \o s : s \in Orderings(S \ {x})} : x \in S}

\* ---------------------------------------------------------------- state
VARIABLES
    users,      \* the rows of table user
    posts,      \* the rows of table post
    pending,    \* add_user requests between their lookup and their commit
    last,       \* the request completed last, with its response
    prev,       \* route and outcome of the request completed before it
    submitted   \* the forms with both fields POSTed to /add-post so far

vars == <<users, posts, pending, last, prev, submitted>>

Response(route, method, form, outcome, page) ==
    [route |-> route, method |-> method, form |-> form,
     outcome |-> outcome, page |-> page]

\* the response of the request that completes becomes `last`
Respond(r) ==
    /\ last' = r
    /\ prev' = [route |-> last.route, outcome |-> last.outcome]

\* a worker is free to take a request
Idle == pending < NumWorkers

Init ==
    /\ users \in InitialUserTables
    /\ posts = {}
    /\ pending = 0
    /\ last = Response("none", "none", NoForm, "none", <<>>)
    /\ prev = [route |-> "none", outcome |-> "none"]
    /\ submitted = <<>>

\* index(): GET /
index ==
    /\ Idle
    /\ \E rows \in Orderings(JoinRows(users, posts)) :
          Respond(Response("/", "GET", NoForm, "index.html", rows))
    /\ UNCHANGED <<users, posts, pending, submitted>>

\* add_post() with request.method = 'GET'
add_post_GET ==
    /\ Idle
    /\ Respond(Response("/add-post", "GET", NoForm, "add_post.html", <<>>))
    /\ UNCHANGED <<users, posts, pending, submitted>>

\* add_post() with request.method = 'POST' and request.form = form
add_post_POST(form) ==
    LET title == request_form(form, "title")
        content == request_form(form, "content")
    IN  /\ Idle
        /\ IF form \in CompleteForms
           THEN /\ Len(submitted) < MaxSubmits
                /\ submitted' = Append(submitted, form)
           ELSE UNCHANGED submitted
        /\ IF ~title.ok \/ ~content.ok
           THEN /\ Respond(Response("/add-post", "POST", form,
                                    "RequestFormatError", <<>>))
                /\ UNCHANGED posts
           ELSE \E created_at \in Days :
                   LET id == uuid4({x.id : x \in posts})
                       done == CommitPost(users, posts,
                                   new_post(id, title.val, content.val, created_at))
                   IN  /\ posts' = done.posts
                       /\ Respond(Response("/add-post", "POST", form,
                                           AddPostResponse(done.ok), <<>>))
        /\ UNCHANGED <<users, pending>>

\* add_user(), the lookup: when the user is found the handler returns
add_user_lookup ==
    /\ Idle
    /\ IF filter_by_username(users) = {}
       THEN /\ pending' = pending + 1
            /\ UNCHANGED <<last, prev>>
       ELSE /\ Respond(Response("/add-user", "GET", NoForm,
                                "User already exists.", <<>>))
            /\ UNCHANGED pending
    /\ UNCHANGED <<users, posts, submitted>>

\* add_user(), the insert and commit that follow a lookup that found nothing
add_user_insert ==
    /\ pending > 0
    /\ LET id == uuid4({x.id : x \in users})
           done == CommitUser(users, new_user(id))
       IN  /\ users' = done.users
              /\ Respond(Response("/add-user", "GET", NoForm,
                                  AddUserResponse(done.ok, new_user(id)), <<>>))
    /\ pending' = pending - 1
    /\ UNCHANGED <<posts, submitted>>

Next ==
    \/ index
    \/ add_post_GET
    \/ \E form \in Forms : add_post_POST(form)
    \/ add_user_lookup
    \/ add_user_insert

Spec == Init /\ [][Next]_vars

\* ------------------------------------------------------------ properties
\* vocabulary of the properties
Rishabhs(us) == {u \in us : u.username = "rishabh"}
OwnerPresent(us) == \E u \in us : u.id = user_id
Lists(page, form) ==
    \E i \in DOMAIN page : /\ <<"title", page[i].post.title>> \in form
                           /\ <<"content", page[i].post.content>> \in form
HelloWorld == {<<"title", "Hello">>, <<"content", "World">>}

\* C1: after a POST /add-post with both fields present, the list a later
\* GET / returns includes a post with exactly that title and that content.
C1_PostedPostIsListed ==
    last.route = "/" =>
        \A i \in DOMAIN submitted : Lists(last.page, submitted[i])

\* C2: GET /add-user is idempotent: a GET /add-user that follows a completed
\* GET /add-user answers "User already exists.", changes neither table and
\* leaves exactly one user named rishabh; after "User rishabh added." the
\* next answer is "User already exists.".
C2_AddUserIdempotent ==
    [][/\ (last.route = "/add-user" /\ add_user_lookup) =>
             /\ last'.route = "/add-user"
             /\ last'.outcome = "User already exists."
             /\ prev'.outcome = last.outcome
             /\ pending' = pending
             /\ users' = users
             /\ posts' = posts
             /\ Cardinality(Rishabhs(users')) = 1
       /\ add_user_insert => Cardinality(Rishabhs(users')) = 1]_vars

C2_Witness ==
    /\ prev.route = "/add-user"
    /\ prev.outcome = "User rishabh added."
    /\ last.route = "/add-user"
    /\ last.outcome = "User already exists."
    /\ Cardinality(Rishabhs(users)) = 1

\* C3: every post GET / returns comes with an existing user whose identifier
\* is the post's user_id: no post is listed with an absent author.
C3_ListedPostHasAuthor ==
    last.route = "/" =>
        \A i \in DOMAIN last.page :
            /\ last.page[i].author \in users
            /\ last.page[i].author.id = last.page[i].post.user_id

C3_Witness ==
    /\ last.route = "/"
    /\ Len(last.page) >= 1
    /\ Cardinality(users) >= 2

\* C4: referential integrity: every persisted post's user_id is the
\* identifier of a persisted user.
C4_ReferentialIntegrity ==
    \A p \in posts : \E u \in users : u.id = p.user_id

C4_Witness ==
    /\ posts # {}
    /\ last.route = "/add-post"
    /\ last.outcome = "redirect /"

\* C5: with GET /add-user requests interleaved between lookup and commit,
\* the user table never holds two users named rishabh: a commit succeeds,
\* with the creation confirmation, only when no such user exists yet, and
\* every other request that passed the lookup fails with a StorageError
\* and adds no user.
C5_ConcurrentAddUser ==
    [][add_user_insert =>
          /\ IF Rishabhs(users) = {}
             THEN /\ last'.outcome = "User rishabh added."
                  /\ users \subseteq users'
                  /\ Cardinality(users') = Cardinality(users) + 1
             ELSE /\ last'.outcome = "StorageError"
                  /\ users' = users
          /\ Cardinality(Rishabhs(users')) = 1]_vars

C5_Witness ==
    /\ prev.route = "/add-user"
    /\ prev.outcome = "User rishabh added."
    /\ last.route = "/add-user"
    /\ last.outcome = "StorageError"
    /\ Cardinality(Rishabhs(users)) = 1

\* C6: while no user has the hardcoded owner id, a POST /add-post (with both
\* fields present) fails with a StorageError: no post is persisted, both
\* tables are unchanged and no redirect is issued.
C6_UnknownOwnerRejected ==
    [][\A form \in CompleteForms :
          (add_post_POST(form) /\ ~OwnerPresent(users)) =>
              /\ last'.outcome = "StorageError"
              /\ posts' = posts
              /\ users' = users]_vars

C6_Witness ==
    /\ ~OwnerPresent(users)
    /\ last.route = "/add-post"
    /\ last.method = "POST"
    /\ last.outcome = "StorageError"
    /\ posts = {}

\* C7: from an empty store (no users, no posts) GET / returns the empty
\* list, and after k POST /add-post of title "Hello" and content "World"
\* GET / returns exactly k posts, each once, each with that title, that
\* content and an author username.  (Rows are only ever added and the post
\* table starts empty, so users = {} says that the store started empty and
\* that no GET /add-user has committed since.)
C7_EmptyStoreScenario ==
    (/\ users = {}
     /\ last.route = "/"
     /\ \A i \in DOMAIN submitted : submitted[i] = HelloWorld) =>
        /\ Len(last.page) = Len(submitted)
        /\ \A i, j \in DOMAIN last.page :
              last.page[i].post = last.page[j].post => i = j
        /\ \A i \in DOMAIN last.page :
              /\ last.page[i].post.title = "Hello"
              /\ last.page[i].post.content = "World"
              /\ last.page[i].author.username \in {username} \cup OtherUsernames

\* C8: a POST /add-post whose form lacks title or content ends in a
\* request-format error: no post is created, both tables are unchanged and
\* the response is no redirect.
C8_MissingFieldRejected ==
    [][\A form \in Forms \ CompleteForms :
          add_post_POST(form) =>
              /\ last'.outcome = "RequestFormatError"
              /\ posts' = posts
              /\ users' = users]_vars

C8_Witness ==
    /\ last.route = "/add-post"
    /\ last.method = "POST"
    /\ last.form \notin CompleteForms
    /\ last.outcome = "RequestFormatError"
    /\ OwnerPresent(users)

\* C9: users and posts are never updated or deleted: a row present in one
\* state is present, with the same attributes, in the next.
C9_RowsNeverChange ==
    [][users \subseteq users' /\ posts \subseteq posts']_vars

C9_Witness ==
    /\ Cardinality(posts) >= 2
    /\ Cardinality(users) >= 2
    /\ last.outcome = "User rishabh added."

\* C10: a POST /add-post answered by the redirect adds exactly one post,
\* with an identifier no existing post has, the hardcoded owner id and the
\* submitted title and content, and changes nothing else; GET / and
\* GET /add-post change neither table.
C10_AddPostFrame ==
    [][/\ \A form \in Forms :
             (add_post_POST(form) /\ last'.outcome = "redirect /") =>
                 /\ \E np \in posts' \ posts :
                       /\ posts' = posts \cup {np}
                       /\ \A q \in posts : q.id # np.id
                       /\ np.user_id = user_id
                       /\ <<"title", np.title>> \in form
                       /\ <<"content", np.content>> \in form
                 /\ users' = users
       /\ (index \/ add_post_GET) => (users' = users /\ posts' = posts)]_vars

C10_Witness ==
    /\ last.route = "/add-post"
    /\ last.outcome = "redirect /"
    /\ Cardinality(posts) >= 2

====
